---- MODULE Spec2Model ----
\* crimson: an in-process actor runtime.  The model covers the raw channel pair
\* (src/src/channel.ts) and the addressed Sender / Receiver and the System
\* router and scheduler (src/unnamed/part_000), driven by a host timer queue.
EXTENDS Integers, Sequences, FiniteSets, TLC

\* ---------------------------------------------------------------- bounds
\* calls the host program makes on the System and on the pair start() returned
MaxCalls == 4
\* Sender.send calls overall (the caller's and the actors')
MaxEnvelopes == 4
\* envelopes' age in scheduling quanta is counted up to this cap
MaxAge == 3
\* operations on the stand-alone raw channel
MaxChannelOps == 4

\* ------------------------------------------------------------- constants
\* the delay of every setTimeout / delay(ms) in the runtime, in quanta
TimerDelay == 1

SystemAddress == "System"
\* addresses an actor can be mounted at
ActorAddresses == {"A", "B", "C"}
\* an address nothing is ever mounted at
UnknownAddress == "X"
Addresses == {SystemAddress, UnknownAddress} \cup ActorAddresses
\* the values the caller sends, in this order, and the callbacks it subscribes
Values == <<"v1", "v2", "v3">>
Callbacks == <<"sink", "sink2", "stopper">>

\* ---------------------------------------------------------------- state
VARIABLES
  started,    \* System.started
  actorKeys,  \* keys of System.actors in insertion order
  actors,     \* System.actors: address -> actor (NoActor when absent)
  messages,   \* System.messages: address -> array id (0 when absent)
  arrays,     \* the mailbox arrays ever created: array id -> queued envelopes
  receivers,  \* the addressed Receivers ever constructed, with their raw channel
  handles,    \* the Receivers returned to the caller by start(), oldest first
  timers,     \* the host's timer queue, in creation order
  sent,       \* history: every Sender.send call, indexed by envelope id
  log,        \* history: every invocation of an addressed Receiver's func
  exits,      \* history: every drain loop that saw started = false and exited
  counts,     \* history: number of calls made by the host program
  chan,       \* a stand-alone raw channel: its ChannelReceiver
  chanLog     \* history: operations made on the stand-alone raw channel

vars ==
  <<started, actorKeys, actors, messages, arrays, receivers, handles, timers,
    sent, log, exits, counts, chan, chanLog>>

sysVars ==
  <<started, actorKeys, actors, messages, arrays, receivers, handles, timers,
    sent, log, exits, counts>>

chanVars ==
  <<chan, chanLog>>

\* ------------------------------------------------------- raw channel pair
\* the functions a raw ChannelReceiver can hold
DefaultFunc == "noop"
UnwrapFunc == "unwrap"
RouterFunc == "router"

\* new ChannelReceiver<T>(): subscribed = false, func = no-op
NewChannelReceiver ==
  [subscribed |-> FALSE, func |-> DefaultFunc, threw |-> FALSE]

\* ChannelReceiver.on(func): the result carries threw = TRUE when on() throws
ChannelReceiver_on(rx, func) ==
  IF rx.subscribed = FALSE
    THEN [rx EXCEPT !.func = func, !.threw = FALSE]
    ELSE [rx EXCEPT !.threw = TRUE]

\* ChannelReceiver.dispatch(value) / ChannelSender.send(value): the func invoked
ChannelReceiver_dispatch(rx) ==
  rx.func

\* ------------------------------------------------------------ data types
\* SystemMessage<T>; id is history (the index of the send call in sent)
Envelope(id, from, to, value) ==
  [id |-> id, from |-> from, to |-> to, value |-> value]

NoEnvelope ==
  Envelope(0, "", "", "")

\* the callbacks an addressed Receiver's func can be
Handler(h, to) ==
  [h |-> h, to |-> to]

\* Receiver.func's initial value: (_0, _1) => { /* */ }
DefaultHandler ==
  Handler("default", "")

\* the actors the host program mounts
Actor(cls, to) ==
  [cls |-> cls, to |-> to]

NoActor ==
  Actor("none", "")

\* mutant: a timer that may fire at once (a delay of 0)
Timer_nowait(kind, env, address, array, w) ==
  [kind |-> kind, wait |-> 0, env |-> env, address |-> address,
   array |-> array, w |-> w]

\* one entry of the host's timer queue; wait = quanta left before it may fire
Timer(kind, env, address, array, w) ==
  [kind |-> kind, wait |-> TimerDelay, env |-> env, address |-> address,
   array |-> array, w |-> w]

\* the System and the host timer queue as one value the operations transform;
\* overflow is set when a send would exceed MaxEnvelopes, threw while an
\* exception thrown by a receiver callback propagates up the call stack,
\* wiring while start() is running
Machine ==
  [started |-> started, actorKeys |-> actorKeys, actors |-> actors,
   messages |-> messages, arrays |-> arrays, receivers |-> receivers,
   handles |-> handles, timers |-> timers, sent |-> sent, log |-> log,
   exits |-> exits, counts |-> counts, overflow |-> FALSE, threw |-> FALSE,
   wiring |-> FALSE]

\* the operation's result becomes the next state; the result is computed once
Commit(m) ==
  \E r \in {m} :
    /\ ~r.overflow
    /\ started' = r.started
    /\ actorKeys' = r.actorKeys
    /\ actors' = r.actors
    /\ messages' = r.messages
    /\ arrays' = r.arrays
    /\ receivers' = r.receivers
    /\ handles' = r.handles
    /\ timers' = r.timers
    /\ sent' = r.sent
    /\ log' = r.log
    /\ exits' = r.exits
    /\ counts' = r.counts

\* setTimeout(callback, 1): the host appends the timer to its queue
SetTimeout(m, timer) ==
  [m EXCEPT !.timers = Append(@, timer)]

\* ------------------------------------------------- addressed Sender / Receiver
\* the address is the System's own or has an actor registered
IsMounted(m, address) ==
  \/ address = SystemAddress
  \/ \E i \in 1..Len(m.actorKeys) : m.actorKeys[i] = address

\* mutant: send hands the envelope to the Receiver wired last for the
\* destination before it returns
Sender_send_direct(m, w, to, value) ==
  IF Len(m.sent) >= MaxEnvelopes
    THEN [m EXCEPT !.overflow = TRUE]
    ELSE LET id == Len(m.sent) + 1
             ws == {v \in 1..Len(m.receivers) : m.receivers[v].address = to}
             rec == [w |-> w, to |-> to, value |-> value, age |-> 0,
                     fate |-> IF ws # {} THEN "delivered" ELSE "dropped",
                     array |-> 0, stopped |-> ~m.started, known |-> ws # {},
                     mounted |-> IsMounted(m, to), wiring |-> m.wiring]
         IN  IF ws # {}
               THEN LET v == CHOOSE x \in ws : \A y \in ws : y <= x
                    IN  [m EXCEPT !.sent = Append(@, rec),
                                  !.log = Append(@,
                                    [w |-> v, address |-> to,
                                     from |-> m.receivers[w].address,
                                     value |-> value, id |-> id,
                                     func |-> m.receivers[v].func,
                                     ons |-> Len(m.receivers[v].hist),
                                     age |-> 0, stopped |-> ~m.started])]
               ELSE [m EXCEPT !.sent = Append(@, rec)]

\* mutant: send submits inline, handing the envelope to the router before it
\* returns
Sender_send_inline(m, w, to, value) ==
  IF Len(m.sent) >= MaxEnvelopes
    THEN [m EXCEPT !.overflow = TRUE]
    ELSE LET id == Len(m.sent) + 1
             env == Envelope(id, m.receivers[w].address, to, value)
             array == m.messages[to]
             rec == [w |-> w, to |-> to, value |-> value, age |-> 0,
                     fate |-> IF array # 0 THEN "queued" ELSE "dropped",
                     array |-> array, stopped |-> ~m.started,
                     known |-> array # 0,
                     mounted |-> IsMounted(m, to), wiring |-> m.wiring]
         IN  IF array # 0
               THEN [m EXCEPT !.sent = Append(@, rec),
                              !.arrays[array] = Append(@, env)]
               ELSE [m EXCEPT !.sent = Append(@, rec)]

\* Sender.send(to, value) on the Sender wired as receivers[w]; sent records the
\* call: the Sender, the arguments, whether the destination was mounted and
\* had a mailbox, whether the call was made inside start(), and the
\* envelope's later fate
Sender_send(m, w, to, value) ==
  IF Len(m.sent) >= MaxEnvelopes
    THEN [m EXCEPT !.overflow = TRUE]
    ELSE LET id == Len(m.sent) + 1
             env == Envelope(id, m.receivers[w].address, to, value)
         IN  SetTimeout(
               [m EXCEPT !.sent = Append(@,
                  [w |-> w, to |-> to, value |-> value, age |-> 0,
                   fate |-> "timer", array |-> 0, stopped |-> FALSE,
                   known |-> m.messages[to] # 0,
                   mounted |-> IsMounted(m, to), wiring |-> m.wiring])],
               Timer("send", env, env.from, 0, w))

\* mutant: the addressed Receiver keeps the first func subscribed on it
Receiver_on_once(m, w, func) ==
  [m EXCEPT !.receivers[w].func = IF m.receivers[w].hist = <<>> THEN func ELSE @,
            !.receivers[w].hist = Append(@, func)]

\* Receiver.on(func) on the Receiver wired as receivers[w]; hist records the calls
Receiver_on(m, w, func) ==
  [m EXCEPT !.receivers[w].func = func,
            !.receivers[w].hist = Append(@, func)]

\* System.stop()
System_stop(m) ==
  [m EXCEPT !.started = FALSE, !.counts.stopped = TRUE]

\* Receiver.func(from, value): the callback an actor or the caller subscribed;
\* a callback that throws leaves threw set, and failed records its envelope
Receiver_invoke(m, w, from, value, id) ==
  LET r == m.receivers[w]
      f == r.func
      m1 == [m EXCEPT !.log = Append(@,
               [w |-> w, address |-> r.address, from |-> from,
                value |-> value, id |-> id, func |-> f,
                ons |-> Len(r.hist), age |-> m.sent[id].age,
                stopped |-> ~m.started]),
              !.sent[id].fate = "delivered"]
  IN  CASE f.h = "fwd" -> Sender_send(m1, w, f.to, value)
        [] f.h = "reply" -> Sender_send(m1, w, from, value)
        [] f.h = "stopper" -> System_stop(m1)
        [] f.h = "throw" -> [m1 EXCEPT !.threw = TRUE, !.receivers[w].failed = id]
        [] OTHER -> m1

\* mutant: the unwrapping callback passes message.to where message.from belongs
Receiver_func_to(m, w, env) ==
  Receiver_invoke(m, w, env.to, env.value, env.id)

\* the callback the Receiver's constructor subscribes on its raw channel:
\* (message) => this.func(message.from, message.value)
Receiver_func(m, w, env) ==
  Receiver_invoke(m, w, env.from, env.value, env.id)

\* tx1.send(message): the raw channel hands the envelope to the subscribed func
Inbound_send(m, w, env) ==
  IF ChannelReceiver_dispatch(m.receivers[w].rx1) = UnwrapFunc
    THEN Receiver_func(m, w, env)
    ELSE m

\* ----------------------------------------------------------------- System
\* mutant: the router puts the envelope at the head of the mailbox
RouterHandler_unshift(m, env) ==
  IF m.messages[env.to] # 0
    THEN [m EXCEPT !.arrays[m.messages[env.to]] = <<env>> \o @,
                   !.sent[env.id].fate = "queued",
                   !.sent[env.id].array = m.messages[env.to],
                   !.sent[env.id].stopped = ~m.started]
    ELSE [m EXCEPT !.sent[env.id].fate = "dropped"]

\* mutant: the router puts an envelope for an unknown address in the System's
\* own mailbox
RouterHandler_deadletter(m, env) ==
  LET array == IF m.messages[env.to] # 0
                 THEN m.messages[env.to] ELSE m.messages[SystemAddress]
  IN  [m EXCEPT !.arrays[array] = Append(@, env),
                !.sent[env.id].fate = "queued",
                !.sent[env.id].array = array,
                !.sent[env.id].stopped = ~m.started]

\* the handler start subscribes on every outbound raw Receiver rx0; sent records
\* the envelope's fate, the array it went to and whether stop() had been called
RouterHandler(m, env) ==
  IF m.messages[env.to] # 0
    THEN [m EXCEPT !.arrays[m.messages[env.to]] = Append(@, env),
                   !.sent[env.id].fate = "queued",
                   !.sent[env.id].array = m.messages[env.to],
                   !.sent[env.id].stopped = ~m.started]
    ELSE [m EXCEPT !.sent[env.id].fate = "dropped"]

\* tx0.send(message) made by the deferred callback of Sender.send
Outbound_send(m, w, env) ==
  IF ChannelReceiver_dispatch(m.receivers[w].rx0) = RouterFunc
    THEN RouterHandler(m, env)
    ELSE [m EXCEPT !.sent[env.id].fate = "dropped"]

\* mutant: a cycle forwards one envelope only (if instead of while)
Drain_one(m, array, w) ==
  IF m.arrays[array] = <<>>
    THEN m
    ELSE Inbound_send([m EXCEPT !.arrays[array] = Tail(@)], w,
                      Head(m.arrays[array]))

\* while (messages.length > 0) { tx1.send(messages.shift()) }; nothing catches
\* what tx1.send throws
RECURSIVE Drain(_, _, _)
Drain(m, array, w) ==
  IF m.overflow \/ m.threw \/ m.arrays[array] = <<>>
    THEN m
    ELSE LET env == Head(m.arrays[array])
         IN  Drain(Inbound_send([m EXCEPT !.arrays[array] = Tail(@)], w, env),
                   array, w)

\* mutant: the loop never tests the flag (while (true))
LoopCheck_forever(m, address, array, w, first) ==
  SetTimeout(m, Timer("delay", NoEnvelope, address, array, w))

\* mutant: the loop runs one cycle only (if instead of while)
LoopCheck_once(m, address, array, w, first) ==
  IF m.started /\ first
    THEN SetTimeout(m, Timer("delay", NoEnvelope, address, array, w))
    ELSE [m EXCEPT !.exits = @ \cup
            {[w |-> w, address |-> address, array |-> array, first |-> first,
              routed |-> {id \in 1..Len(m.sent) : m.sent[id].fate # "timer"}]}]

\* while (this.started) { await delay(1) ... }: the test of the loop condition;
\* exits records the loop that ends, whether this was its first test, and the
\* envelopes the router has handled so far
LoopCheck(m, address, array, w, first) ==
  IF m.started
    THEN SetTimeout(m, Timer("delay", NoEnvelope, address, array, w))
    ELSE [m EXCEPT !.exits = @ \cup
            {[w |-> w, address |-> address, array |-> array, first |-> first,
              routed |-> {id \in 1..Len(m.sent) : m.sent[id].fate # "timer"}]}]

\* the two channel pairs and the addressed Receiver start makes for one address;
\* history: mount is the mailbox array the address has at that moment, which
\* for an actor names the mount call that registered it, run counts the calls
\* of Actor.run with this pair, late counts the drains this address's loop
\* began after stop(), and failed is the envelope on which the Receiver's
\* callback threw (0 when none did)
Wire(m, address, mount) ==
  [m EXCEPT !.receivers = Append(@,
     [address |-> address,
      rx0 |-> ChannelReceiver_on(NewChannelReceiver, RouterFunc),
      rx1 |-> ChannelReceiver_on(NewChannelReceiver, UnwrapFunc),
      func |-> DefaultHandler, hist |-> <<>>, mount |-> mount, run |-> 0,
      late |-> 0, failed |-> 0])]

\* Actor.run(sender, receiver) of the host's actor classes
Actor_run(m, actor, w) ==
  LET m1 == [m EXCEPT !.receivers[w].run = @ + 1]
  IN  CASE actor.cls = "Forward" -> Receiver_on(m1, w, Handler("fwd", actor.to))
        [] actor.cls = "Reply" -> Receiver_on(m1, w, Handler("reply", ""))
        [] actor.cls = "Greeter" ->
             Sender_send(Receiver_on(m1, w, Handler("sink", "")), w, actor.to, "v1")
        [] actor.cls = "Thrower" -> Receiver_on(m1, w, Handler("throw", ""))
        [] OTHER -> m1

\* System.start_actors(): the body of the for loop, from the i-th key on
RECURSIVE start_actors(_, _)
start_actors(m, i) ==
  IF i > Len(m.actorKeys)
    THEN m
    ELSE LET address == m.actorKeys[i]
             w == Len(m.receivers) + 1
             m1 == Actor_run(Wire(m, address, m.messages[address]),
                             m.actors[address], w)
         IN  start_actors(SetTimeout(m1, Timer("loop", NoEnvelope, address, 0, w)),
                          i + 1)

\* mutant: start_system launches no drain loop for the System's own address
start_system_noloop(m) ==
  [Wire(m, SystemAddress, m.messages[SystemAddress]) EXCEPT !.handles = Append(@, Len(m.receivers) + 1)]

\* System.start_system()
start_system(m) ==
  LET w == Len(m.receivers) + 1
      m1 == SetTimeout(Wire(m, SystemAddress, m.messages[SystemAddress]),
                       Timer("loop", NoEnvelope, SystemAddress, 0, w))
  IN  [m1 EXCEPT !.handles = Append(@, w)]

\* System.start(); counts.restarted records a start() made after a stop()
System_start(m) ==
  LET m1 == [m EXCEPT !.started = TRUE, !.wiring = TRUE,
                      !.counts.restarted = @ \/ m.counts.stopped]
  IN  [start_system(start_actors(m1, 1)) EXCEPT !.wiring = FALSE]

\* mutant: mount registers the actor and makes no mailbox for its address
System_mount_nomailbox(m, address, actor) ==
  [m EXCEPT !.actorKeys = IF \E i \in 1..Len(@) : @[i] = address
                            THEN @ ELSE Append(@, address),
            !.actors[address] = actor]

\* mutant: mount gives the address the System's own mailbox
System_mount_shared(m, address, actor) ==
  [m EXCEPT !.actorKeys = IF \E i \in 1..Len(@) : @[i] = address
                            THEN @ ELSE Append(@, address),
            !.actors[address] = actor,
            !.arrays = Append(@, <<>>),
            !.messages[address] = m.messages[SystemAddress]]

\* System.mount(address, actor)
System_mount(m, address, actor) ==
  [m EXCEPT !.actorKeys = IF \E i \in 1..Len(@) : @[i] = address
                            THEN @ ELSE Append(@, address),
            !.actors[address] = actor,
            !.arrays = Append(@, <<>>),
            !.messages[address] = Len(m.arrays) + 1]

\* mutant: the loop catches what a callback throws and carries on
Cycle_catch(m, t) ==
  LET m1 == [m EXCEPT !.receivers[t.w].late = IF m.started THEN @ ELSE @ + 1]
      m2 == Drain(m1, t.array, t.w)
  IN  LoopCheck([m2 EXCEPT !.threw = FALSE], t.address, t.array, t.w, FALSE)

\* the continuation of await delay(1): the inner while, then the outer test;
\* an exception out of the inner while rejects the async function's promise
\* and the loop is over, with no effect on the host's other timers
Cycle(m, t) ==
  LET m1 == [m EXCEPT !.receivers[t.w].late = IF m.started THEN @ ELSE @ + 1]
      m2 == Drain(m1, t.array, t.w)
  IN  IF m2.threw
        THEN [m2 EXCEPT !.threw = FALSE]
        ELSE LoopCheck(m2, t.address, t.array, t.w, FALSE)

\* the callback of one timer of the host queue
TimerCallback(m, t) ==
  CASE t.kind = "send" -> Outbound_send(m, t.w, t.env)
    [] t.kind = "loop" ->
         LoopCheck(m, t.address, m.messages[t.address], t.w, TRUE)
    [] OTHER -> Cycle(m, t)

\* one scheduling quantum elapses: every waiting timer comes a quantum nearer,
\* every envelope not yet delivered or dropped grows a quantum older
Elapse(m) ==
  [m EXCEPT
     !.timers = [i \in 1..Len(@) |->
                   [@[i] EXCEPT !.wait = IF @ > 0 THEN @ - 1 ELSE 0]],
     !.sent = [i \in 1..Len(@) |->
                 IF @[i].fate \in {"timer", "queued"} /\ @[i].age < MaxAge
                   THEN [@[i] EXCEPT !.age = @ + 1] ELSE @[i]]]

\* ------------------------------------------------------------------ Init
Init ==
  /\ started = FALSE
  /\ actorKeys = <<>>
  /\ actors = [a \in Addresses |-> NoActor]
  /\ messages = [a \in Addresses |-> IF a = SystemAddress THEN 1 ELSE 0]
  /\ arrays = << <<>> >>
  /\ receivers = <<>>
  /\ handles = <<>>
  /\ timers = <<>>
  /\ sent = <<>>
  /\ log = <<>>
  /\ exits = {}
  /\ counts = [calls |-> 0, sends |-> 0, ons |-> 0, stopped |-> FALSE,
               restarted |-> FALSE]
  /\ chan = NewChannelReceiver
  /\ chanLog = <<>>

\* --------------------------------------------------------------- actions
\* the machine at the start of one more call of the host program
Call ==
  [Machine EXCEPT !.counts.calls = @ + 1]

\* the caller mounts an actor
Mount(address, actor) ==
  /\ Commit(System_mount(Call, address, actor))
  /\ UNCHANGED chanVars

\* the caller starts the System
Start ==
  /\ Commit(System_start(Call))
  /\ UNCHANGED chanVars

\* the caller stops the System
Stop ==
  /\ started
  /\ Commit(System_stop(Call))
  /\ UNCHANGED chanVars

\* the caller sends its next value on the Sender the last start() returned
Send(to) ==
  /\ handles # <<>>
  /\ counts.sends < Len(Values)
  /\ Commit(Sender_send([Call EXCEPT !.counts.sends = @ + 1],
                        handles[Len(handles)], to, Values[counts.sends + 1]))
  /\ UNCHANGED chanVars

\* the caller subscribes a callback on the Receiver the last start() returned
On(callback) ==
  /\ handles # <<>>
  /\ Commit(Receiver_on([Call EXCEPT !.counts.ons = @ + 1],
                        handles[Len(handles)], Handler(callback, "")))
  /\ UNCHANGED chanVars

\* the host fires the oldest timer, once it has waited its delay
Fire ==
  /\ timers # <<>>
  /\ Head(timers).wait = 0
  /\ Commit(TimerCallback([Machine EXCEPT !.timers = Tail(@)], Head(timers)))
  /\ UNCHANGED chanVars

\* a scheduling quantum elapses on a host that fires its timers on time: no
\* timer that may fire is left in the queue when the quantum ends.  Timers of
\* one delay fire in creation order, so the calls and callbacks come in the
\* same orders on a host that fires late; only the quanta counted differ.
Tick ==
  /\ timers # <<>>
  /\ \A i \in 1..Len(timers) : timers[i].wait > 0
  /\ Commit(Elapse(Machine))
  /\ UNCHANGED chanVars

\* a scheduling quantum elapses on a host that may fire its timers late
TickLate ==
  /\ \E i \in 1..Len(timers) : timers[i].wait > 0
  /\ Commit(Elapse(Machine))
  /\ UNCHANGED chanVars

\* ------------------------------------------------- general specification
\* any MaxCalls calls of the host program, at any moments
SpecMounts ==
  { <<"A", Actor("Reply", "")>>, <<"A", Actor("Greeter", "A")>> }

SpecTargets ==
  {"A", SystemAddress, UnknownAddress}

\* the host program has calls left to make
Budget ==
  counts.calls < MaxCalls

Next ==
  \/ Budget /\ \E p \in SpecMounts : Mount(p[1], p[2])
  \/ Budget /\ Start
  \/ Budget /\ Stop
  \/ Budget /\ \E to \in SpecTargets : Send(to)
  \/ Budget /\ \E k \in 1..Len(Callbacks) : k = counts.ons + 1 /\ On(Callbacks[k])
  \/ Fire
  \/ Tick

Spec ==
  Init /\ [][Next]_vars

\* ------------------------------------- the same host with late timers
LateTargets ==
  {"A", SystemAddress}

NextLate ==
  \/ Budget /\ Mount("A", Actor("Reply", ""))
  \/ Budget /\ Start
  \/ Budget /\ \E to \in LateTargets : Send(to)
  \/ Fire
  \/ TickLate

SpecLate ==
  Init /\ [][NextLate]_vars

\* ------------------------------ normal operation: started and never stopped
\* the host mounts before start(), starts once, never stops, and fires every
\* timer on time; a caller's send to the replying actor costs two envelopes
LiveSend(to) ==
  /\ Budget
  /\ 2 * (counts.sends + 1) <= MaxEnvelopes
  /\ Send(to)

NextLive ==
  \/ Budget /\ handles = <<>> /\ Mount("A", Actor("Reply", ""))
  \/ Budget /\ handles = <<>> /\ Start
  \/ \E to \in LateTargets : LiveSend(to)
  \/ Fire
  \/ Tick

SpecLive ==
  Init /\ [][NextLive]_vars /\ WF_vars(Fire) /\ WF_vars(Tick)

\* --------------------------- an actor mounted at the System's own address
\* the host mounts a replying actor at the System's address before its one
\* start(), subscribes on the Receiver start() returned and sends to the
\* System's address; it never stops
NextOwn ==
  \/ Budget /\ handles = <<>> /\ Mount(SystemAddress, Actor("Reply", ""))
  \/ Budget /\ handles = <<>> /\ Start
  \/ Budget /\ Send(SystemAddress)
  \/ Budget /\ counts.ons = 0 /\ On(Callbacks[1])
  \/ Fire
  \/ Tick

SpecOwn ==
  Init /\ [][NextOwn]_vars

\* -------------------------------------- an actor whose callback throws
\* the host mounts at A an actor whose callback throws, starts once, and
\* sends to A and to its own address
NextThrow ==
  \/ Budget /\ handles = <<>> /\ Mount("A", Actor("Thrower", ""))
  \/ Budget /\ handles = <<>> /\ Start
  \/ Budget /\ \E to \in LateTargets : Send(to)
  \/ Fire
  \/ Tick

SpecThrow ==
  Init /\ [][NextThrow]_vars

\* ------------------------------- one turn of the host program, then timers
\* the host program's first turn mounts, starts once, sends, and ends with
\* on(f) on the Receiver start() returned; the host fires no timer before the
\* turn has ended, and every timer on time after it
TurnOpen ==
  counts.ons = 0

NextTurn ==
  \/ TurnOpen /\ Budget /\ handles = <<>> /\ Mount("A", Actor("Reply", ""))
  \/ TurnOpen /\ Budget /\ handles = <<>> /\ Start
  \/ TurnOpen /\ \E to \in LateTargets : LiveSend(to)
  \/ TurnOpen /\ On(Callbacks[1])
  \/ ~TurnOpen /\ Fire
  \/ ~TurnOpen /\ Tick

SpecTurn ==
  Init /\ [][NextTurn]_vars /\ WF_vars(TurnOpen /\ On(Callbacks[1]))
       /\ WF_vars(~TurnOpen /\ Fire) /\ WF_vars(~TurnOpen /\ Tick)

\* --------------------------------------- actors that send inside run()
\* the actors the host mounts: at A one whose run() sends to B, to the
\* System's address or to an address never mounted, at B one that replies
WireMounts ==
  { <<"A", Actor("Greeter", "B")>>, <<"A", Actor("Greeter", SystemAddress)>>,
    <<"A", Actor("Greeter", UnknownAddress)>>, <<"B", Actor("Reply", "")>> }

NextWire ==
  \/ Budget /\ \E p \in WireMounts : Mount(p[1], p[2])
  \/ Budget /\ Start
  \/ Budget /\ Stop
  \/ Fire
  \/ Tick

SpecWire ==
  Init /\ [][NextWire]_vars

\* ------------------------------------------ the echo test of the repository
\* System > A > B > C > System: the actors the test mounts, in its order
ChainActors ==
  << <<"A", Actor("Forward", "B")>>, <<"B", Actor("Forward", "C")>>,
     <<"C", Actor("Forward", SystemAddress)>> >>

\* the callbacks the test may subscribe: one that only looks, and the test's
\* own, which calls system.stop()
ChainCallbacks ==
  {"sink", "stopper"}

\* the test's synchronous block has run: mounts, start(), send("A", v), on(f)
ChainReady ==
  counts.ons = 1

ChainMount ==
  /\ handles = <<>>
  /\ Len(actorKeys) < Len(ChainActors)
  /\ Mount(ChainActors[Len(actorKeys) + 1][1], ChainActors[Len(actorKeys) + 1][2])

ChainStart ==
  /\ handles = <<>>
  /\ Len(actorKeys) = Len(ChainActors)
  /\ Start

ChainSend ==
  /\ counts.sends = 0
  /\ Send("A")

ChainOn ==
  /\ counts.sends = 1
  /\ counts.ons = 0
  /\ \E f \in ChainCallbacks : On(f)

\* no timer fires while the test's synchronous block runs
NextChain ==
  \/ ChainMount
  \/ ChainStart
  \/ ChainSend
  \/ ChainOn
  \/ ChainReady /\ Stop
  \/ ChainReady /\ Fire
  \/ ChainReady /\ Tick

\* the test's synchronous block runs to its end and the host fires every timer
\* eventually; nothing obliges the caller to stop
SpecChain ==
  Init /\ [][NextChain]_vars /\ WF_vars(ChainOn)
       /\ WF_vars(ChainReady /\ Fire) /\ WF_vars(ChainReady /\ Tick)

\* ------------------------------------------- the raw channel on its own
\* const [tx, rx] = channel(); the callbacks and values a user gives it
ChannelFuncs ==
  {"f1", "f2"}

\* rx.on(func)
ChanOn(func) ==
  /\ Len(chanLog) < MaxChannelOps
  /\ chan' = ChannelReceiver_on(chan, func)
  /\ chanLog' = Append(chanLog,
       [op |-> "on", func |-> func, threw |-> chan'.threw, value |-> ""])
  /\ UNCHANGED sysVars

\* tx.send(value): the receiver's current func is invoked with the value
ChanSend(value) ==
  /\ Len(chanLog) < MaxChannelOps
  /\ chanLog' = Append(chanLog,
       [op |-> "send", func |-> ChannelReceiver_dispatch(chan), threw |-> FALSE,
        value |-> value])
  /\ UNCHANGED chan
  /\ UNCHANGED sysVars

NextChannel ==
  \/ \E f \in ChannelFuncs : ChanOn(f)
  \/ \E i \in 1..Len(Values) : ChanSend(Values[i])

SpecChannel ==
  Init /\ [][NextChannel]_vars

\* ---------------------------------------------------------------- claims
\* the address of the Sender on which the send call of envelope id was made
SentFrom(id) ==
  receivers[sent[id].w].address

\* C2: FIFO per source and destination.  Of two envelopes sent from one
\* address to one destination and both handed to a receiver callback, the one
\* whose send call was made first (the smaller id) is handed over first.
C2_Fifo ==
  \A i, j \in 1..Len(log) :
    ( /\ i < j
      /\ SentFrom(log[i].id) = SentFrom(log[j].id)
      /\ sent[log[i].id].to = sent[log[j].id].to )
    => log[i].id < log[j].id

\* C2 witness: two values the caller sent to actor A, both handed to A's callback
C2_Witness ==
  \E i, j \in 1..Len(log) :
    /\ i < j
    /\ log[i].address = "A" /\ log[j].address = "A"
    /\ log[i].func # DefaultHandler /\ log[j].func # DefaultHandler
    /\ SentFrom(log[i].id) = SystemAddress
    /\ SentFrom(log[j].id) = SystemAddress
    /\ log[i].value = "v1" /\ log[j].value = "v2"

\* C3: envelope integrity and at-most-once delivery.  Every invocation of a
\* receiver callback carries the value of one send call, at the address that
\* call named as `to`, with the address of the Sender the call was made on as
\* `from`; and no send call is handed to a callback twice.
C3_Integrity ==
  /\ \A i \in 1..Len(log) :
       /\ log[i].id \in 1..Len(sent)
       /\ log[i].address = sent[log[i].id].to
       /\ log[i].from = SentFrom(log[i].id)
       /\ log[i].value = sent[log[i].id].value
  /\ \A i, j \in 1..Len(log) : i # j => log[i].id # log[j].id

\* C3 witness: the caller's callback has received actor A's reply
C3_Witness ==
  \E i \in 1..Len(log) :
    /\ log[i].address = SystemAddress
    /\ log[i].from = "A"
    /\ log[i].func = Handler("sink", "")

\* C4: raw channel single subscription.  Every call of on() on a raw channel
\* Receiver that follows an earlier call of on() on it throws.
C4_SingleSubscription ==
  \A i, j \in 1..Len(chanLog) :
    (j < i /\ chanLog[j].op = "on" /\ chanLog[i].op = "on") => chanLog[i].threw

\* C5: addressed Receiver overwrite policy.  No subscription made while wiring
\* an addressed Receiver throws, and every envelope handed to an addressed
\* Receiver invokes the func of the latest on() call made on it before (the
\* default no-op when there was none), never the func of an earlier on() call.
C5_Overwrite ==
  /\ \A w \in 1..Len(receivers) :
       ~receivers[w].rx0.threw /\ ~receivers[w].rx1.threw
  /\ \A i \in 1..Len(log) :
       log[i].func = IF log[i].ons = 0
                       THEN DefaultHandler
                       ELSE receivers[log[i].w].hist[log[i].ons]

\* C5 witness: after on(f1) and on(f2) on the System's Receiver an envelope
\* arrived there and invoked f2
C5_Witness ==
  \E i \in 1..Len(log) :
    /\ log[i].address = SystemAddress
    /\ log[i].ons = 2
    /\ receivers[log[i].w].hist = <<Handler("sink", ""), Handler("sink2", "")>>
    /\ log[i].func = Handler("sink2", "")

\* the envelopes queued in some mailbox array
Queued ==
  {arrays[a][k].id : <<a, k>> \in
     {p \in (1..Len(arrays)) \X (1..MaxEnvelopes) : p[2] <= Len(arrays[p[1]])}}

\* the envelopes handed to some addressed Receiver
Delivered ==
  {log[i].id : i \in 1..Len(log)}

\* C6: unknown-destination drop.  An envelope whose `to` has never been
\* mounted and is not the System's address is in no mailbox and is handed to
\* no receiver; and the step in which the router handles an envelope whose
\* `to` has no mailbox changes no mailbox and invokes no receiver callback.
C6_Drop ==
  /\ [](\A id \in 1..Len(sent) :
          messages[sent[id].to] = 0 =>
            /\ sent[id].fate \in {"timer", "dropped"}
            /\ id \notin Queued
            /\ id \notin Delivered)
  /\ [][\A id \in 1..Len(sent) :
          (sent[id].fate = "timer" /\ sent'[id].fate = "dropped") =>
            (arrays' = arrays /\ log' = log)]_vars

\* C6 witness: the router has dropped an envelope sent to the unknown address,
\* while another envelope was delivered
C6_Witness ==
  /\ \E id \in 1..Len(sent) :
       sent[id].to = UnknownAddress /\ sent[id].fate = "dropped"
  /\ log # <<>>

\* the number of times envelope id was handed to an addressed Receiver
Deliveries(id) ==
  Cardinality({i \in 1..Len(log) : log[i].id = id})

\* the envelopes appended to the array of loop exit x before the loop ended
Appended(x) ==
  {id \in x.routed : sent[id].array = x.array}

\* C7 as claimed: every envelope appended to a mailbox before its drain loop's
\* terminating test of `started` has been delivered exactly once, also when
\* that test is the loop's first.
C7_Claim ==
  \A x \in exits : \A id \in Appended(x) : Deliveries(id) = 1

\* C7 as amended: every envelope appended to the array a drain loop drains
\* before the loop's terminating test of `started` has been delivered exactly
\* once when the loop ends, provided that test is not the loop's first (the
\* loop found started = true at least once and so ran a cycle).
C7_GraceFlush ==
  \A x \in exits : ~x.first => \A id \in Appended(x) : Deliveries(id) = 1

\* C7 witness: a loop has ended after a cycle in which it delivered an envelope
\* that the router appended after stop() had been called
C7_Witness ==
  \E x \in exits : \E id \in Appended(x) :
    /\ ~x.first
    /\ sent[id].stopped
    /\ Deliveries(id) = 1
    /\ counts.stopped

\* C8: no delivery after exit.  Once the drain loop of an address has made its
\* final test of `started` and ended, only envelopes the router had handled
\* before are ever handed to a receiver callback at that address.
C8_NoDeliveryAfterExit ==
  \A x \in exits : \A i \in 1..Len(log) :
    (log[i].address = x.address /\ log[i].func # DefaultHandler)
      => log[i].id \in x.routed

\* C9 as claimed: minimum latency.  No envelope is handed to a receiver
\* callback before two scheduling quanta have elapsed since its send call.
C9_Claim ==
  \A i \in 1..Len(log) : log[i].age >= 2

\* C9 as amended: no envelope is handed to a receiver callback before one
\* scheduling quantum (the delay of the deferred-send timer) has elapsed since
\* its send call.
C9_MinLatency ==
  \A i \in 1..Len(log) : log[i].age >= TimerDelay

\* C9 witness: an envelope handed to a callback one quantum after its send call
C9_Witness ==
  \E i \in 1..Len(log) : log[i].age = 1 /\ log[i].func # DefaultHandler

\* C10: eventual delivery.  While the System stays started, every envelope
\* sent to an address that has a mailbox is handed to that address's Receiver,
\* and it never grows older than two scheduling quanta before that.
C10_Eventual ==
  /\ [](\A id \in 1..Len(sent) :
          sent[id].known => sent[id].age <= 2 * TimerDelay)
  /\ \A id \in 1..MaxEnvelopes :
       (id <= Len(sent) /\ sent[id].known) ~>
         (id <= Len(sent) /\ sent[id].fate = "delivered" /\ Deliveries(id) = 1)

\* C10 witness: the System is started, was never stopped, actor A received the
\* caller's envelope two quanta after the send and its reply reached the System
C10_Witness ==
  /\ started /\ ~counts.stopped
  /\ \E i, j \in 1..Len(log) :
       /\ log[i].address = "A" /\ log[i].from = SystemAddress
       /\ log[i].age = 2 * TimerDelay
       /\ log[j].address = SystemAddress /\ log[j].from = "A"

\* the callback subscribed on the System's Receiver was invoked with
\* (from = "C", value) for the value the caller sent to A
RoundTripDone ==
  \E i \in 1..Len(log) :
    /\ log[i].w = handles[1]
    /\ log[i].func # DefaultHandler
    /\ log[i].from = "C"
    /\ log[i].value = Values[1]

\* C1: round-trip chain.  With A forwarding to B, B to C and C to the System,
\* a send("A", v) on the System's Sender leads to the callback on the System's
\* Receiver being invoked with (from = "C", value = v), unless stop() is called.
C1_RoundTrip ==
  (counts.sends = 1) ~> (RoundTripDone \/ counts.stopped)

\* C1 witness: the callback was invoked with ("C", v) while the System was
\* still started
C1_Witness ==
  /\ RoundTripDone
  /\ \E i \in 1..Len(log) : log[i].from = "C" /\ ~log[i].stopped

\* C11: deferred submission.  The step in which the caller calls send(to, value)
\* on its addressed Sender changes no mailbox and invokes no receiver callback;
\* in every step, an envelope whose send call the step made is left with the
\* host's timer and in no mailbox; and the router handles an envelope only
\* after the deferred-send delay has elapsed.
C11_Deferred ==
  /\ [][counts'.sends # counts.sends =>
          (arrays' = arrays /\ messages' = messages /\ log' = log)]_vars
  /\ [][\A id \in 1..Len(sent') :
          id > Len(sent) => (sent'[id].fate = "timer" /\ id \notin Queued')]_vars
  /\ [](\A id \in 1..Len(sent) :
          sent[id].fate # "timer" => sent[id].age >= TimerDelay)

\* C11 witness: the caller's send to actor A has returned after an earlier
\* envelope was delivered; its envelope waits with the timer, the mailboxes
\* are empty
C11_Witness ==
  /\ log # <<>>
  /\ Queued = {}
  /\ \E id \in 1..Len(sent) :
       /\ sent[id].w \in {handles[h] : h \in 1..Len(handles)}
       /\ sent[id].to = "A" /\ sent[id].known
       /\ sent[id].fate = "timer"

\* the pairs with which run was called on the actor that mount call k registered
\* (mount call k made mailbox array k)
Runs(k) ==
  {w \in 1..Len(receivers) : receivers[w].mount = k /\ receivers[w].run > 0}

\* C12: Actor.run is invoked exactly once.  Every start() calls run, inside the
\* call, on each actor registered at that moment; and over the whole life of
\* the System no actor has run called on it more than once, whatever mount,
\* start and stop calls are made.
C12_RunOnce ==
  /\ [][Len(handles') > Len(handles) =>
          \A i \in 1..Len(actorKeys) :
            \E w \in (Len(receivers) + 1)..Len(receivers') :
              /\ receivers'[w].address = actorKeys[i]
              /\ receivers'[w].mount = messages[actorKeys[i]]
              /\ receivers'[w].run = 1]_vars
  /\ [](\A k \in 2..Len(arrays) : Cardinality(Runs(k)) <= 1)

\* C13: started-flag lifecycle.  The flag is false until start() is called,
\* start() sets it and stop() clears it, and once stop() has been called the
\* flag is never true again.
C13_Lifecycle ==
  /\ handles = <<>> => ~started
  /\ counts.stopped => ~started

\* the drain loops still running: launched, and not yet ended
Running ==
  {timers[i].w : i \in {j \in 1..Len(timers) : timers[j].kind # "send"}}

\* C14: bounded wind-down.  When stop() has been called and start() is not
\* called after it, no drain loop begins more than one drain after the stop,
\* a loop that has ended never runs again, and eventually no loop is running.
C14_WindDown ==
  /\ [](~counts.restarted =>
          \A w \in 1..Len(receivers) : receivers[w].late <= 1)
  /\ [][\A x \in exits : ~counts'.restarted => x.w \notin Running']_vars
  /\ counts.stopped ~> (Running = {})

\* C14 witness: every loop has ended after a stop(); one of them drained and
\* delivered once more after the stop, another ended at its first test
C14_Witness ==
  /\ counts.stopped /\ ~counts.restarted
  /\ Running = {}
  /\ \E w \in 1..Len(receivers) : receivers[w].late = 1
  /\ \E x \in exits : x.first
  /\ \E i \in 1..Len(log) : log[i].stopped

\* the mailbox array the drain loop of the i-th timer pops from: the array it
\* holds, or the array it is about to look up when it has not run yet
LoopArray(i) ==
  IF timers[i].kind = "delay"
    THEN timers[i].array ELSE messages[timers[i].address]

\* C15: single reader per mailbox.  No two running drain loops pop from the
\* same mailbox, also when an actor is mounted at the System's own address.
C15_SingleReader ==
  \A i, j \in 1..Len(timers) :
    (i # j /\ timers[i].kind # "send" /\ timers[j].kind # "send")
      => LoopArray(i) # LoopArray(j)

\* the addresses that must have a mailbox: the mounted ones and the System's
Mounted ==
  {actorKeys[i] : i \in 1..Len(actorKeys)} \cup {SystemAddress}

\* C16 as claimed: one mailbox per address for life.  Every mounted address
\* and the System's address has a mailbox, no step replaces or removes the
\* mailbox of an address, and every drain loop pops from the mailbox the
\* router appends to for its address.
C16_Claim ==
  /\ [](\A a \in Mounted : messages[a] \in 1..Len(arrays))
  /\ [][\A a \in Addresses : messages[a] # 0 => messages'[a] = messages[a]]_vars
  /\ [](\A i \in 1..Len(timers) :
          timers[i].kind = "delay" => timers[i].array = messages[timers[i].address])

\* C16 as amended: every mounted address and the System's address has one
\* mailbox and no step removes it; a step changes the mailbox of an address
\* only as a mount() call does, to a new, empty mailbox, with no timer set and
\* no callback invoked; and a drain loop wired when its address had the
\* mailbox the router appends to now pops from that mailbox.
C16_OneMailbox ==
  /\ [](\A a \in Mounted : messages[a] \in 1..Len(arrays))
  /\ [][\A a \in Addresses :
          /\ messages[a] # 0 => messages'[a] # 0
          /\ messages'[a] # messages[a] =>
               /\ Len(arrays') = Len(arrays) + 1
               /\ messages'[a] = Len(arrays')
               /\ arrays'[messages'[a]] = <<>>
               /\ a \in Mounted'
               /\ timers' = timers /\ log' = log]_vars
  /\ [](\A i \in 1..Len(timers) :
          ( /\ timers[i].kind = "delay"
            /\ receivers[timers[i].w].mount = messages[timers[i].address] )
          => timers[i].array = messages[timers[i].address])

\* C16 witness: A was mounted twice before start(), so that its first mailbox
\* was replaced; A's loop is in its cycles on the mailbox the router appends
\* to and has delivered the caller's envelope from it
C16_Witness ==
  /\ messages["A"] > 2
  /\ \E i \in 1..Len(timers) :
       /\ timers[i].kind = "delay" /\ timers[i].address = "A"
       /\ timers[i].array = messages["A"]
       /\ \E k \in 1..Len(log) :
            log[k].w = timers[i].w /\ sent[log[k].id].array = messages["A"]

\* the Receivers whose callback has thrown
Failed ==
  {w \in 1..Len(receivers) : receivers[w].failed # 0}

\* C17: unhandled callback failure.  When a receiver callback has thrown on
\* an envelope, the envelope is in no mailbox and was handed over once, the
\* drain loop that forwarded it is not running and has made no delivery since;
\* and the step in which the callback throws ends no other drain loop.
C17_Failure ==
  /\ [](\A w \in Failed :
          /\ receivers[w].failed \notin Queued
          /\ Deliveries(receivers[w].failed) = 1
          /\ w \notin Running
          /\ \A i \in 1..Len(log) :
               log[i].w = w =>
                 \E j \in i..Len(log) : log[j].id = receivers[w].failed)
  /\ [][\A w \in Failed' \ Failed : Running \ {w} \subseteq Running']_vars

\* C17 witness: A's callback threw on the caller's first envelope; the second
\* one has stayed in A's mailbox for two quanta, while the System's own loop
\* is still running
C17_Witness ==
  \E w \in Failed :
    /\ receivers[w].address = "A"
    /\ \E id \in Queued : sent[id].to = "A" /\ sent[id].age >= 2
    /\ \E v \in Running : receivers[v].address = SystemAddress

\* C18: late subscription in the same turn.  With on(f) called on the System's
\* Receiver in the turn that called start() and send(), no envelope addressed
\* to the System is handed to the default no-op func, and once the turn has
\* ended every envelope sent to the System's address comes to be handed to f.
C18_LateSubscription ==
  /\ [](\A i \in 1..Len(log) :
          log[i].address = SystemAddress =>
            (log[i].ons = 1 /\ log[i].func = Handler(Callbacks[1], "")))
  /\ ~TurnOpen ~>
       (\A id \in 1..Len(sent) :
          sent[id].to = SystemAddress =>
            \E i \in 1..Len(log) :
              log[i].id = id /\ log[i].func = Handler(Callbacks[1], ""))

\* C18 witness: f has received an envelope the caller sent to the System's
\* address before it called on(f), and A's reply to an earlier send
C18_Witness ==
  \E i, j \in 1..Len(log) :
    /\ log[i].address = SystemAddress /\ log[i].from = SystemAddress
    /\ log[i].func = Handler(Callbacks[1], "")
    /\ log[j].address = SystemAddress /\ log[j].from = "A"
    /\ log[j].func = Handler(Callbacks[1], "")

\* C19: drain cycles terminate.  A step in which a drain loop hands envelopes
\* to a callback appends nothing to any mailbox, hands over only envelopes
\* whose send call was made in an earlier step, and makes as many deliveries
\* as it takes envelopes out of the mailbox; and an envelope a callback sent
\* is handed over only in a later step than the one that ran the callback.
C19_CycleTerminates ==
  /\ [][Len(log') > Len(log) =>
          /\ Queued' \subseteq Queued
          /\ \A i \in (Len(log) + 1)..Len(log') : log'[i].id \in Queued
          /\ Len(log') - Len(log) = Cardinality(Queued \ Queued')]_vars
  /\ [][\A id \in 1..Len(sent') : id > Len(sent) => id \notin Delivered']_vars

\* C19 witness: A's callback sent a reply while A's loop was forwarding to it,
\* and the reply was handed to the System's Receiver afterwards
C19_Witness ==
  \E i, j \in 1..Len(log) :
    /\ i < j
    /\ log[i].address = "A" /\ log[i].func = Handler("reply", "")
    /\ sent[log[j].id].w = log[i].w
    /\ log[j].id > log[i].id
    /\ log[j].address = SystemAddress

\* the send timers the host holds, by envelope
Pending ==
  {timers[i].env.id : i \in {j \in 1..Len(timers) : timers[j].kind = "send"}}

\* C20: sends made during wiring are not lost.  An envelope an actor sent
\* inside run(), during start(), to an address that was mounted then or to
\* the System's address is never dropped: it waits with a timer of the host,
\* and the step in which the router handles it appends it to the mailbox of
\* its destination.
C20_WiringSends ==
  /\ [](\A id \in 1..Len(sent) :
          (sent[id].wiring /\ sent[id].mounted) =>
            /\ sent[id].fate # "dropped"
            /\ sent[id].fate = "timer" => id \in Pending)
  /\ [][\A id \in 1..Len(sent) :
          ( /\ sent[id].wiring /\ sent[id].mounted
            /\ sent[id].fate = "timer" /\ sent'[id].fate # "timer" )
          => /\ sent'[id].fate = "queued"
             /\ sent'[id].array = messages[sent[id].to]
             /\ arrays'[messages[sent[id].to]] =
                  Append(arrays[messages[sent[id].to]],
                         Envelope(id, SentFrom(id), sent[id].to, sent[id].value))]_vars

\* C20 witness: A's run() sent to B before B's run() was called; the envelope
\* was appended to B's mailbox and handed to B's callback
C20_Witness ==
  \E i \in 1..Len(sent) :
    /\ sent[i].wiring /\ sent[i].to = "B" /\ sent[i].mounted
    /\ \E v \in 1..Len(receivers) : receivers[v].address = "B" /\ v > sent[i].w
    /\ sent[i].array = messages["B"]
    /\ \E k \in 1..Len(log) : log[k].id = i /\ log[k].func = Handler("reply", "")

====
